---- MODULE Spec2Model ----
(***************************************************************************)
(* Model of ext/jq/jq_ext.c: the Ruby binding of libjq.                    *)
(*                                                                         *)
(* A call of JQ.filter (rb_jq_filter_impl) or JQ.validate_filter!          *)
(* (rb_jq_validate_filter) is a little sequential program over one         *)
(* jq_state and a handful of jv values.  Each call is modelled as a frame  *)
(* (its local variables and its position in the function); one action of   *)
(* the model is one libjq engine call together with the local code that    *)
(* follows it up to the next engine call.                                  *)
(*                                                                         *)
(* libjq itself is outside the repository.  What it answers is an input of *)
(* the model: a request says whether jq_init succeeds, whether the filter  *)
(* compiles and which diagnostic the engine then holds, what jv_parse      *)
(* makes of the JSON text, and which values jq_next yields.                *)
(***************************************************************************)
EXTENDS Naturals, Sequences, FiniteSets, TLC

(***************************************************************************)
(* Bounds of the model.                                                    *)
(***************************************************************************)
\* longest run of valid results a result stream yields before its end
MaxResults == 2
\* number of host threads that may call into the extension
NumCalls == 2
\* engine instances that may stay allocated after their call has ended
MaxLeaks == 1

Calls == 1..NumCalls
MaxEngines == NumCalls + MaxLeaks
Handles == 1..MaxEngines
\* jq_state *jq = NULL
NULL == 0

(***************************************************************************)
(* Byte strings.  A C string ends at its first NUL byte while a jv string  *)
(* and a Ruby String carry a length, so a string is modelled as the        *)
(* sequence of its NUL-free pieces: <<"bo", "om">> is "bo\0om".            *)
(***************************************************************************)
\* const char * seen through a NUL-terminated reader (rb_str_new_cstr, "%s")
cstr(bytes) == <<bytes[1]>>

\* rb_str_new_cstr(msg): a Ruby String of the bytes up to the first NUL
rb_str_new_cstr(bytes) == cstr(bytes)

\* rb_utf8_str_new(str, len): a Ruby String of exactly len bytes
rb_utf8_str_new(bytes) == bytes

(***************************************************************************)
(* jv values (jv.h).  A valid value has a kind and a content; an invalid   *)
(* value carries a message, and jv_invalid() carries the message null.     *)
(***************************************************************************)
jv_null == [kind |-> "null", str |-> <<"">>, members |-> <<>>, printable |-> TRUE]

jv_string(bytes) ==
    [kind |-> "string", str |-> bytes, members |-> <<>>, printable |-> TRUE]

jv_invalid == [kind |-> "invalid", msg |-> jv_null]

jv_invalid_with_msg(m) == [kind |-> "invalid", msg |-> m]

jv_is_valid(j) == j.kind # "invalid"

jv_get_kind(j) == j.kind

jv_invalid_has_msg(j) == j.kind = "invalid" /\ j.msg.kind # "null"

jv_invalid_get_msg(j) == j.msg

jv_string_value(j) == j.str

\* the JSON values the model draws results, inputs and messages from
JStr == jv_string(<<"Alice">>)

\* {"z":1,"a":2}: members in insertion order, keys by code point
JObj ==
    [kind |-> "object", str |-> <<"">>,
     members |-> <<[k |-> 122, v |-> "1"], [k |-> 97, v |-> "2"]>>,
     printable |-> TRUE]

\* a value jv_dump_string answers with an invalid jv
JUnprintable ==
    [kind |-> "number", str |-> <<"">>, members |-> <<>>, printable |-> FALSE]

MsgBoom == jv_string(<<"boom">>)

\* a message with a NUL byte inside
MsgNul == jv_string(<<"bo", "om">>)

(***************************************************************************)
(* jv_dump_string(value, flags): the JSON text of a value.                 *)
(***************************************************************************)
KeyText(k) == IF k = 97 THEN "a" ELSE IF k = 122 THEN "z" ELSE "k"

RECURSIVE InsertMember(_, _)
InsertMember(m, sorted) ==
    IF sorted = <<>> THEN <<m>>
    ELSE IF m.k <= Head(sorted).k THEN <<m>> \o sorted
    ELSE <<Head(sorted)>> \o InsertMember(m, Tail(sorted))

RECURSIVE SortMembers(_)
SortMembers(ms) ==
    IF ms = <<>> THEN <<>> ELSE InsertMember(Head(ms), SortMembers(Tail(ms)))

RECURSIVE DumpMembers(_, _)
DumpMembers(ms, pretty) ==
    IF ms = <<>> THEN ""
    ELSE LET m == Head(ms)
             one == IF pretty
                    THEN "  \"" \o KeyText(m.k) \o "\": " \o m.v
                    ELSE "\"" \o KeyText(m.k) \o "\":" \o m.v
             sep == IF Tail(ms) = <<>> THEN ""
                    ELSE IF pretty THEN ",\n" ELSE ","
         IN one \o sep \o DumpMembers(Tail(ms), pretty)

RECURSIVE DumpBytes(_)
DumpBytes(bytes) ==
    IF Len(bytes) = 1 THEN bytes[1]
    ELSE bytes[1] \o "\\u0000" \o DumpBytes(Tail(bytes))

DumpText(value, pretty, sorted) ==
    CASE value.kind = "null" -> "null"
      [] value.kind = "string" -> "\"" \o DumpBytes(value.str) \o "\""
      [] value.kind = "object" ->
            LET ms == IF sorted THEN SortMembers(value.members) ELSE value.members
            IN IF pretty THEN "{\n" \o DumpMembers(ms, TRUE) \o "\n}"
               ELSE "{" \o DumpMembers(ms, FALSE) \o "}"
      [] OTHER -> "?"

jv_dump_string(value, flags) ==
    IF value.printable
    THEN jv_string(<<DumpText(value, "JV_PRINT_PRETTY" \in flags,
                               "JV_PRINT_SORTED" \in flags)>>)
    ELSE jv_invalid

(***************************************************************************)
(* The ownership ledger of one call: one entry per jv the call obtained,   *)
(* counting how often the value was consumed (jv_free, or handed to a      *)
(* function that consumes its argument).                                   *)
(***************************************************************************)
New(h, tag) == Append(h, [tag |-> tag, n |-> 0])

Consume(h, id) == [h EXCEPT ![id].n = @ + 1]

\* a local jv variable: the value and its ledger entry
Local(v, id) == [v |-> v, id |-> id]

(***************************************************************************)
(* Ruby values and exception classes.                                      *)
(***************************************************************************)
Qnil == [t |-> "nil"]

Qtrue == [t |-> "true"]

Qfalse == [t |-> "false"]

RString(bytes) == [t |-> "String", bytes |-> bytes]

\* an Integer: neither nil nor false, so true to RTEST
Fixnum(n) == [t |-> "Integer", n |-> n]

\* a Hash: its keys are Symbols, given by their names
RHash(h) == [t |-> "Hash", h |-> h]

T_STRING == "String"

T_HASH == "Hash"

RTEST(v) == v.t \notin {"nil", "false"}

NIL_P(v) == v.t = "nil"

\* rb_hash_aref(hash, ID2SYM(rb_intern(name))): nil for a key the hash lacks
rb_hash_aref(hash, name) == IF name \in DOMAIN hash.h THEN hash.h[name] ELSE Qnil

rb_ary_new == [t |-> "Array", items |-> <<>>]

\* the element put in front instead of behind
rb_ary_push_front(ary, x) == [ary EXCEPT !.items = <<x>> \o @]

rb_ary_push(ary, x) == [ary EXCEPT !.items = Append(@, x)]

rb_eJQError == "JQ::Error"

rb_eJQCompileError == "JQ::CompileError"

rb_eJQRuntimeError == "JQ::RuntimeError"

rb_eJQParseError == "JQ::ParseError"

\* what a call hands back to its caller
NoOutcome == [type |-> "none"]

Returned(value) == [type |-> "return", value |-> value]

\* rb_raise(class, "%s", msg): the message is read as a C string
rb_raise(class, msg) == [type |-> "raise", class |-> class, msg |-> cstr(msg)]

\* Check_Type(v, t): TypeError unless v is of type t
Check_Type(v, t) ==
    IF v.t = t THEN [raised |-> FALSE, text |-> <<"">>]
    ELSE [raised |-> TRUE,
          text |-> <<"wrong argument type " \o v.t \o " (expected " \o t \o ")">>]

\* rb_scan_args(argc, argv, "2:", &json_str, &filter_str, &opts): two
\* mandatory arguments, and the keywords of the call or nil when it has
\* none; ArgumentError for any other number of positional arguments
rb_scan_args(argv, kw) ==
    IF Len(argv) # 2
    THEN [raised |-> TRUE, json_str |-> Qnil, filter_str |-> Qnil, opts |-> Qnil]
    ELSE [raised |-> FALSE, json_str |-> argv[1], filter_str |-> argv[2], opts |-> kw]

(***************************************************************************)
(* jv_to_json_string (the Result Formatter).  value is consumed.           *)
(***************************************************************************)
\* JV_PRINT_PRETTY set for compact output instead of for non-compact
DumpFlags_pretty_when_compact(compact, sort) ==
    (IF compact THEN {"JV_PRINT_PRETTY"} ELSE {})
        \cup (IF sort THEN {"JV_PRINT_SORTED"} ELSE {})

\* int flags = 0; if (!compact) flags |= JV_PRINT_PRETTY;
\* if (sort) flags |= JV_PRINT_SORTED;
DumpFlags(compact, sort) ==
    (IF ~compact THEN {"JV_PRINT_PRETTY"} ELSE {})
        \cup (IF sort THEN {"JV_PRINT_SORTED"} ELSE {})

jv_to_json_string(h, value, raw, compact, sort) ==
    LET flags == DumpFlags(compact, sort)
    IN IF raw /\ jv_get_kind(value.v) = "string"
       THEN LET h1 == New(h, "jv_copy(value)")
                \* jv_string_length_bytes consumes the copy
                h2 == Consume(h1, Len(h1))
                \* jv_free(value)
                h3 == Consume(h2, value.id)
            IN [heap |-> h3, raised |-> FALSE,
                text |-> rb_utf8_str_new(jv_string_value(value.v))]
       ELSE LET json == jv_dump_string(value.v, flags)
                \* jv_dump_string consumes value and yields json
                h1 == New(Consume(h, value.id), "json")
                jid == Len(h1)
            IN IF ~jv_is_valid(json)
               THEN [heap |-> Consume(h1, jid), raised |-> TRUE,
                     text |-> <<"Failed to convert result to JSON">>]
               ELSE LET h2 == New(h1, "jv_copy(json)")
                        h3 == Consume(h2, Len(h2))
                        h4 == Consume(h3, jid)
                    IN [heap |-> h4, raised |-> FALSE,
                        text |-> rb_utf8_str_new(jv_string_value(json))]

(***************************************************************************)
(* raise_jq_error (the Error Classifier).  error_value is consumed.        *)
(***************************************************************************)
\* StringValueCStr raises ArgumentError on a String that holds a NUL byte
StringValueCStr(bytes) ==
    IF Len(bytes) > 1
    THEN [raised |-> TRUE, ptr |-> <<"string contains null byte">>]
    ELSE [raised |-> FALSE, ptr |-> bytes]

\* the base class raised whatever class the caller names
raise_jq_error_base_class(h, error_value, exception_class) ==
    [heap |-> Consume(h, error_value.id),
     out |-> rb_raise(rb_eJQError,
                      IF ~jv_is_valid(error_value.v) \/ jv_get_kind(error_value.v) # "string"
                      THEN <<"Unknown jq error">>
                      ELSE rb_str_new_cstr(jv_string_value(error_value.v)))]

raise_jq_error(h, error_value, exception_class) ==
    IF ~jv_is_valid(error_value.v) \/ jv_get_kind(error_value.v) # "string"
    THEN [heap |-> Consume(h, error_value.id),
          out |-> rb_raise(exception_class, <<"Unknown jq error">>)]
    ELSE LET msg == jv_string_value(error_value.v)
             rb_msg == rb_str_new_cstr(msg)
             msg_cstr == StringValueCStr(rb_msg)
         IN [heap |-> Consume(h, error_value.id),
             out |-> IF msg_cstr.raised
                     THEN rb_raise("ArgumentError", msg_cstr.ptr)
                     ELSE rb_raise(exception_class, msg_cstr.ptr)]

(***************************************************************************)
(* The engine (jq.h).  An engine instance holds the program jq_compile     *)
(* gave it, the input jq_start gave it and its position in the result      *)
(* stream.  owner is the call whose jq_init obtained the instance.         *)
(***************************************************************************)
NoFilter ==
    [compiles |-> FALSE, diag |-> jv_invalid, outputs |-> <<>>, last |-> jv_invalid]

FreeEngine ==
    [live |-> FALSE, owner |-> 0, prog |-> NoFilter, started |-> FALSE,
     input |-> jv_invalid, pos |-> 0]

\* the instance jq_init hands out: the lowest free slot
FreshHandle(E) == CHOOSE h \in Handles :
    /\ ~E[h].live
    /\ \A g \in Handles : ~E[g].live => h <= g

jq_init(E, c, ok) ==
    IF ok
    THEN LET h == FreshHandle(E)
         IN [E |-> [E EXCEPT ![h] = [FreeEngine EXCEPT !.live = TRUE, !.owner = c]],
             jq |-> h]
    ELSE [E |-> E, jq |-> NULL]

jq_compile(E, jq, filter_str) ==
    [E |-> [E EXCEPT ![jq].prog = filter_str, ![jq].started = FALSE, ![jq].pos = 0],
     ok |-> filter_str.compiles]

jq_get_error_message(E, jq) == E[jq].prog.diag

\* jq_start(jq, input, 0) consumes input
jq_start(E, jq, input) ==
    [E EXCEPT ![jq].input = input, ![jq].started = TRUE, ![jq].pos = 0]

jq_next(E, jq) ==
    LET e == E[jq]
        n == Len(e.prog.outputs)
    IN [E |-> [E EXCEPT ![jq].pos = @ + 1],
        value |-> IF ~e.started THEN jv_invalid
                  ELSE IF e.pos < n THEN e.prog.outputs[e.pos + 1]
                  ELSE IF e.pos = n THEN e.prog.last
                  ELSE jv_invalid]

\* jq_teardown(&jq): frees the instance and sets the caller's pointer to NULL
jq_teardown(E, jq) ==
    IF jq = NULL THEN E ELSE [E EXCEPT ![jq] = FreeEngine]

\* one engine call as seen by an observer: which call applied which
\* operation to which instance, whether the instance was that call's own
\* and whether it was live
Ev(op, c, E, jq) ==
    [op |-> op, at |-> op, jq |-> jq,
     own |-> jq # NULL /\ E[jq].owner = c,
     live |-> jq # NULL /\ E[jq].live]

(***************************************************************************)
(* Requests.  filter_str and json_str stand for the texts the caller       *)
(* passes; each is represented by what libjq makes of it.                  *)
(***************************************************************************)
StreamValues == {jv_null, JStr, JObj, JUnprintable}

Outputs == UNION {[1..n -> StreamValues] : n \in 0..MaxResults}

\* how a result stream ends: its end, or an error raised by the filter
Lasts ==
    {jv_invalid, jv_invalid_with_msg(MsgBoom), jv_invalid_with_msg(MsgNul),
     jv_invalid_with_msg(JObj)}

GoodFilters ==
    {[compiles |-> TRUE, diag |-> jv_null, outputs |-> o, last |-> l] :
        o \in Outputs, l \in Lasts}

\* the filter "." on the input of the request
IdentityFilter ==
    [compiles |-> TRUE, diag |-> jv_null, outputs |-> <<JObj>>, last |-> jv_invalid]

BadFilters ==
    {[compiles |-> FALSE, diag |-> d, outputs |-> <<>>, last |-> jv_invalid] :
        d \in {MsgBoom, MsgNul, jv_null, jv_invalid}}

\* JSON texts: a document, a truncated document and the empty text
GoodJson == "{\"z\":1,\"a\":2}"

BadJsons == {"{", ""}

Jsons == {GoodJson} \cup BadJsons

\* jv_parse(json_str): the value of a text, or an invalid jv; the parser
\* attaches its message to a malformed text and none to an empty one
jv_parse(text) ==
    CASE text = GoodJson -> JObj
      [] text = "" -> jv_invalid
      [] OTHER ->
            jv_invalid_with_msg(jv_string(
                <<"Unfinished JSON term at EOF at line 1, column 1 (while parsing '"
                  \o text \o "')">>))

Options ==
    [raw_output : BOOLEAN, compact_output : BOOLEAN, sort_keys : BOOLEAN,
     multiple_outputs : BOOLEAN]

\* int raw_output = 0, compact_output = 1; int sort_keys = 0, multiple_outputs = 0;
DefaultOptions ==
    [raw_output |-> FALSE, compact_output |-> TRUE, sort_keys |-> FALSE,
     multiple_outputs |-> FALSE]

Req(op, ok, f, j, o) ==
    [op |-> op, init_ok |-> ok, filter_str |-> f, json_str |-> j, opts |-> o]

\* a result stream is only read once the filter compiled and the input
\* parsed, so the streams are varied for those requests only
FilterRequests ==
    {Req("filter", TRUE, f, j, o) : f \in BadFilters, j \in Jsons, o \in Options}
    \cup {Req("filter", TRUE, IdentityFilter, j, o) : j \in BadJsons, o \in Options}
    \cup {Req("filter", TRUE, f, GoodJson, o) : f \in GoodFilters, o \in Options}
    \cup {Req("filter", FALSE, IdentityFilter, GoodJson, DefaultOptions)}

ValidateRequests ==
    {Req("validate", ok, f, "", DefaultOptions) :
        ok \in BOOLEAN, f \in BadFilters \cup {IdentityFilter}}

Requests == FilterRequests \cup ValidateRequests

(***************************************************************************)
(* State.                                                                  *)
(***************************************************************************)
VARIABLES
    engines,    \* the jq_state instances of the process
    frame,      \* per call: the local variables and the position in the code
    heap,       \* per call: the ownership ledger of its jv values
    log,        \* per call: the engine calls, raise and return it has made
    outcome     \* per call: what it handed back to its caller

vars == <<engines, frame, heap, log, outcome>>

NoLocal == Local(jv_invalid, 0)

\* the arguments of a call of a method of JQ: positional ones and keywords
NoCall == [method |-> "none", argv |-> <<>>, kw |-> Qnil]

IdleFrame ==
    [pc |-> "idle", call |-> NoCall,
     req |-> Req("none", TRUE, NoFilter, "", DefaultOptions),
     jq |-> NULL, created |-> NULL, input |-> NoLocal, result |-> NoLocal,
     error_msg |-> NoLocal, results |-> Qnil,
     exc_class |-> "none", exc_text |-> <<"">>]

Init ==
    /\ engines = [h \in Handles |-> FreeEngine]
    /\ frame = [c \in Calls |-> IdleFrame]
    /\ heap = [c \in Calls |-> <<>>]
    /\ log = [c \in Calls |-> <<>>]
    /\ outcome = [c \in Calls |-> NoOutcome]

Active == {c \in Calls : frame[c].pc # "idle"}

\* the call ends here: the event of leaving (op is "raise" or "return"), the
\* place in the code it left from, and whether the instance the call had
\* obtained is still live at that moment
Leave(op, c, E, f) ==
    [op |-> op, at |-> f.pc, jq |-> f.created, own |-> TRUE,
     live |-> f.created # NULL /\ E[f.created].live /\ E[f.created].owner = c]

\* the result of one step of a call
Step(f, h, E, out, evs) == [f |-> f, h |-> h, E |-> E, out |-> out, evs |-> evs]

Apply(c, s) ==
    /\ frame' = [frame EXCEPT ![c] = s.f]
    /\ heap' = [heap EXCEPT ![c] = s.h]
    /\ engines' = s.E
    /\ outcome' = [outcome EXCEPT ![c] = s.out]
    /\ log' = [log EXCEPT ![c] = @ \o s.evs]

(***************************************************************************)
(* rb_jq_filter_impl, step by step.                                        *)
(***************************************************************************)
\* jq = NULL; input = jv_invalid(); results = Qnil; jq = jq_init();
FilterInitWith(c, f, h, r) ==
    LET h1 == New(h, "jv_invalid()")
        f1 == [f EXCEPT !.input = Local(jv_invalid, Len(h1)), !.results = Qnil]
    IN IF r.jq = NULL
       THEN Step([f1 EXCEPT !.pc = "done"], h1, r.E,
                 rb_raise(rb_eJQError, <<"Failed to initialize jq">>),
                 <<Leave("raise", c, r.E, f1)>>)
       ELSE Step([f1 EXCEPT !.pc = "compile", !.jq = r.jq, !.created = r.jq],
                 h1, r.E, NoOutcome, <<Ev("jq_init", c, r.E, r.jq)>>)

\* one jq_state kept for all calls instead of one per call
FilterInitStep_shared(c, f, h, E) ==
    FilterInitWith(c, f, h,
        [E |-> [E EXCEPT ![1] = [FreeEngine EXCEPT !.live = TRUE, !.owner = c]],
         jq |-> 1])

FilterInitStep(c, f, h, E) == FilterInitWith(c, f, h, jq_init(E, c, f.req.init_ok))

\* the answer of jq_compile ignored: the call goes on to the parse step
FilterCompileStep_unchecked(c, f, h, E) ==
    LET r == jq_compile(E, f.jq, f.req.filter_str)
    IN Step([f EXCEPT !.pc = "parse"], h, r.E, NoOutcome,
            <<Ev("jq_compile", c, E, f.jq)>>)

\* if (!jq_compile(jq, filter_str))
FilterCompileStep(c, f, h, E) ==
    LET r == jq_compile(E, f.jq, f.req.filter_str)
    IN Step([f EXCEPT !.pc = IF r.ok THEN "parse" ELSE "compile_error"],
            h, r.E, NoOutcome, <<Ev("jq_compile", c, E, f.jq)>>)

\* jq_teardown moved in front of jq_get_error_message: the diagnostic is
\* read from the instance that was just freed
CompileFailure_teardown_first(c, f, h, E, next) ==
    LET E1 == jq_teardown(E, f.jq)
        error == jq_get_error_message(E1, f.jq)
        h1 == Consume(New(h, "error"), Len(h) + 1)
        named == jv_is_valid(error) /\ jv_get_kind(error) = "string"
    IN Step([f EXCEPT !.pc = IF next = "teardown" THEN "exit" ELSE "v_exit",
                      !.jq = NULL, !.exc_class = rb_eJQCompileError,
                      !.exc_text = IF named THEN rb_str_new_cstr(jv_string_value(error))
                                   ELSE <<"Syntax error in jq filter">>],
            h1, E1, NoOutcome,
            <<Ev("jq_teardown", c, E, f.jq), Ev("jq_get_error_message", c, E1, f.jq)>>)

\* the body of if (!jq_compile(...)) up to jq_teardown
CompileFailure(c, f, h, E, next) ==
    LET error == jq_get_error_message(E, f.jq)
        h1 == New(h, "error")
        \* jv_free(error), in either branch
        h2 == Consume(h1, Len(h1))
        named == jv_is_valid(error) /\ jv_get_kind(error) = "string"
        rb_error_msg == rb_str_new_cstr(jv_string_value(error))
        error_cstr == StringValueCStr(rb_error_msg)
        ev == <<Ev("jq_get_error_message", c, E, f.jq)>>
    IN IF named /\ error_cstr.raised
       THEN Step([f EXCEPT !.pc = "done"], h2, E,
                 rb_raise("ArgumentError", error_cstr.ptr),
                 ev \o <<Leave("raise", c, E, f)>>)
       ELSE Step([f EXCEPT !.pc = next, !.exc_class = rb_eJQCompileError,
                           !.exc_text = IF named THEN error_cstr.ptr
                                        ELSE <<"Syntax error in jq filter">>],
                 h2, E, NoOutcome, ev)

FilterCompileErrorStep(c, f, h, E) == CompileFailure(c, f, h, E, "teardown")

\* the body of if (!jv_is_valid(input)) up to jq_teardown
ParseFailureWith(f, h, class, next) ==
    LET h1 == New(h, "jv_copy(input)")
        \* jv_invalid_has_msg consumes the copy
        h2 == Consume(h1, Len(h1))
    IN IF jv_invalid_has_msg(f.input.v)
       THEN LET \* jv_invalid_get_msg consumes input
                h3 == New(Consume(h2, f.input.id), "error_msg")
            IN [f |-> [f EXCEPT !.pc = next,
                                !.error_msg = Local(jv_invalid_get_msg(f.input.v), Len(h3)),
                                !.exc_class = class],
                h |-> h3]
       ELSE [f |-> [f EXCEPT !.pc = next, !.exc_class = class,
                             !.exc_text = <<"Invalid JSON input">>],
             \* jv_free(input)
             h |-> Consume(h2, f.input.id)]

\* the failure of the parse step reported with the class of the stream step
ParseFailure_runtime_class(f, h) ==
    ParseFailureWith(f, h, rb_eJQRuntimeError, "teardown")

\* the failure of the parse step raised with the teardown left out
ParseFailure_no_teardown(f, h) == ParseFailureWith(f, h, rb_eJQParseError, "exit")

ParseFailure(f, h) == ParseFailureWith(f, h, rb_eJQParseError, "teardown")

\* input = jv_parse(json_str); the value input held before is overwritten
FilterParseStep(c, f, h, E) ==
    LET v == jv_parse(f.req.json_str)
        h1 == New(h, "input")
        f1 == [f EXCEPT !.input = Local(v, Len(h1))]
        ev == <<[op |-> "jv_parse", at |-> "jv_parse", jq |-> NULL, own |-> TRUE,
                 live |-> FALSE]>>
    IN IF jv_is_valid(v)
       THEN Step([f1 EXCEPT !.pc = "start"], h1, E, NoOutcome, ev)
       ELSE LET r == ParseFailure(f1, h1)
            IN Step(r.f, r.h, E, NoOutcome, ev)

\* jq_start(jq, input, 0); if (multiple_outputs) results = rb_ary_new();
FilterStartStep(c, f, h, E) ==
    LET multi == f.req.opts.multiple_outputs
    IN Step([f EXCEPT !.pc = IF multi THEN "next_multi" ELSE "next_single",
                      !.results = IF multi THEN rb_ary_new ELSE Qnil],
            Consume(h, f.input.id), jq_start(E, f.jq, f.input.v), NoOutcome,
            <<Ev("jq_start", c, E, f.jq)>>)

\* compact_output and sort_keys passed in each other's place in the
\* multiple_outputs branch
Format_swapped_in_loop(h, f, value) ==
    IF f.req.opts.multiple_outputs
    THEN jv_to_json_string(h, value, f.req.opts.raw_output, f.req.opts.sort_keys,
                           f.req.opts.compact_output)
    ELSE jv_to_json_string(h, value, f.req.opts.raw_output, f.req.opts.compact_output,
                           f.req.opts.sort_keys)

\* jv_to_json_string(result, raw_output, compact_output, sort_keys)
Format(h, f, value) ==
    jv_to_json_string(h, value, f.req.opts.raw_output, f.req.opts.compact_output,
                      f.req.opts.sort_keys)

\* the final invalid result freed without a look at its message
StreamEnd_unchecked(f, h) ==
    [f |-> [f EXCEPT !.pc = "teardown"], h |-> Consume(h, f.result.id)]

\* if (jv_invalid_has_msg(jv_copy(result))) { error_msg = ...; } else jv_free(result)
StreamEnd(f, h) ==
    LET h1 == New(h, "jv_copy(result)")
        h2 == Consume(h1, Len(h1))
    IN IF jv_invalid_has_msg(f.result.v)
       THEN LET h3 == New(Consume(h2, f.result.id), "error_msg")
            IN [f |-> [f EXCEPT !.pc = "teardown",
                                !.error_msg = Local(jv_invalid_get_msg(f.result.v), Len(h3)),
                                !.exc_class = rb_eJQRuntimeError],
                h |-> h3]
       ELSE [f |-> [f EXCEPT !.pc = "teardown"], h |-> Consume(h2, f.result.id)]

\* the loop left only at a marker without a message: an error marker is
\* freed and the next result pulled
MultiResult_pulls_past_error(c, f, h, E) ==
    IF jv_is_valid(f.result.v)
    THEN LET json == Format(h, f, f.result)
         IN IF json.raised
            THEN Step([f EXCEPT !.pc = "done"], json.heap, E,
                      rb_raise(rb_eJQRuntimeError, json.text),
                      <<Leave("raise", c, E, f)>>)
            ELSE Step([f EXCEPT !.results = rb_ary_push(@, RString(json.text))],
                      json.heap, E, NoOutcome, <<>>)
    ELSE IF jv_invalid_has_msg(f.result.v)
    THEN Step(f, Consume(h, f.result.id), E, NoOutcome, <<>>)
    ELSE LET r == StreamEnd(f, h)
         IN Step(r.f, r.h, E, NoOutcome, <<>>)

\* one turn of while (jv_is_valid(result = jq_next(jq))) and what follows it
MultiResult(c, f, h, E) ==
    IF jv_is_valid(f.result.v)
    THEN LET json == Format(h, f, f.result)
         IN IF json.raised
            THEN Step([f EXCEPT !.pc = "done"], json.heap, E,
                      rb_raise(rb_eJQRuntimeError, json.text),
                      <<Leave("raise", c, E, f)>>)
            ELSE Step([f EXCEPT !.results = rb_ary_push(@, RString(json.text))],
                      json.heap, E, NoOutcome, <<>>)
    ELSE LET r == StreamEnd(f, h)
         IN Step(r.f, r.h, E, NoOutcome, <<>>)

FilterNextMultiStep(c, f, h, E) ==
    LET r == jq_next(E, f.jq)
        h1 == New(h, "result")
        s == MultiResult(c, [f EXCEPT !.result = Local(r.value, Len(h1))], h1, r.E)
    IN [s EXCEPT !.evs = <<Ev("jq_next", c, E, f.jq)>> \o @]

\* the else branch: result = jq_next(jq); if valid / else if has msg / else
SingleResultWith(c, f, h, E, none) ==
    IF jv_is_valid(f.result.v)
    THEN LET json == Format(h, f, f.result)
         IN IF json.raised
            THEN Step([f EXCEPT !.pc = "done"], json.heap, E,
                      rb_raise(rb_eJQRuntimeError, json.text),
                      <<Leave("raise", c, E, f)>>)
            ELSE Step([f EXCEPT !.pc = "teardown", !.results = RString(json.text)],
                      json.heap, E, NoOutcome, <<>>)
    ELSE IF jv_invalid_has_msg(f.result.v)
    THEN LET r == StreamEnd(f, h)
         IN Step(r.f, r.h, E, NoOutcome, <<>>)
    ELSE LET h1 == New(h, "jv_copy(result)")
             h2 == Consume(h1, Len(h1))
         IN Step([f EXCEPT !.pc = "teardown", !.results = none],
                 \* jv_free(result)
                 Consume(h2, f.result.id), E, NoOutcome, <<>>)

\* results left at Qnil when the stream is empty
SingleResult_nil(c, f, h, E) == SingleResultWith(c, f, h, E, Qnil)

\* the empty text handed back for an empty stream
SingleResult_empty_text(c, f, h, E) ==
    SingleResultWith(c, f, h, E, RString(rb_str_new_cstr(<<"">>)))

\* No results - return null
SingleResult(c, f, h, E) ==
    SingleResultWith(c, f, h, E, RString(rb_str_new_cstr(<<"null">>)))

\* the first result pulled and dropped, the second one handled
FilterNextSingleStep_second(c, f, h, E) ==
    LET r0 == jq_next(E, f.jq)
        h0 == Consume(New(h, "result"), Len(h) + 1)
        r == jq_next(r0.E, f.jq)
        h1 == New(h0, "result")
        s == SingleResult(c, [f EXCEPT !.result = Local(r.value, Len(h1))], h1, r.E)
    IN [s EXCEPT !.evs = <<Ev("jq_next", c, E, f.jq), Ev("jq_next", c, r0.E, f.jq)>> \o @]

FilterNextSingleStep(c, f, h, E) ==
    LET r == jq_next(E, f.jq)
        h1 == New(h, "result")
        s == SingleResult(c, [f EXCEPT !.result = Local(r.value, Len(h1))], h1, r.E)
    IN [s EXCEPT !.evs = <<Ev("jq_next", c, E, f.jq)>> \o @]

\* jq_teardown(&jq)
TeardownStep(c, f, h, E, next) ==
    Step([f EXCEPT !.pc = next, !.jq = NULL], h, jq_teardown(E, f.jq), NoOutcome,
         <<Ev("jq_teardown", c, E, f.jq)>>)

FilterTeardownStep(c, f, h, E) == TeardownStep(c, f, h, E, "exit")

\* what follows jq_teardown: raise_jq_error(error_msg, class), rb_raise(class,
\* text) or return results
FilterExitStep(c, f, h, E) ==
    IF f.error_msg # NoLocal
    THEN LET r == raise_jq_error(h, f.error_msg, f.exc_class)
         IN Step([f EXCEPT !.pc = "done"], r.heap, E, r.out, <<Leave("raise", c, E, f)>>)
    ELSE IF f.exc_class # "none"
    THEN Step([f EXCEPT !.pc = "done"], h, E, rb_raise(f.exc_class, f.exc_text),
              <<Leave("raise", c, E, f)>>)
    ELSE Step([f EXCEPT !.pc = "done"], h, E, Returned(f.results),
              <<Leave("return", c, E, f)>>)

(***************************************************************************)
(* rb_jq_validate_filter, step by step.                                    *)
(***************************************************************************)
\* jq_state *jq = jq_init();
ValidateInitStep(c, f, h, E) ==
    LET r == jq_init(E, c, f.req.init_ok)
    IN IF r.jq = NULL
       THEN Step([f EXCEPT !.pc = "done"], h, r.E,
                 rb_raise(rb_eJQError, <<"Failed to initialize jq">>),
                 <<Leave("raise", c, r.E, f)>>)
       ELSE Step([f EXCEPT !.pc = "v_compile", !.jq = r.jq, !.created = r.jq],
                 h, r.E, NoOutcome, <<Ev("jq_init", c, r.E, r.jq)>>)

\* a filter that compiled handed on to the parse step of JQ.filter
ValidateCompileStep_runs(c, f, h, E) ==
    LET r == jq_compile(E, f.jq, f.req.filter_str)
    IN Step([f EXCEPT !.pc = IF r.ok THEN "parse" ELSE "v_compile_error"],
            h, r.E, NoOutcome, <<Ev("jq_compile", c, E, f.jq)>>)

\* return Qtrue without the jq_teardown before it
ValidateCompileStep_no_teardown(c, f, h, E) ==
    LET r == jq_compile(E, f.jq, f.req.filter_str)
    IN Step([f EXCEPT !.pc = IF r.ok THEN "v_exit" ELSE "v_compile_error"],
            h, r.E, NoOutcome, <<Ev("jq_compile", c, E, f.jq)>>)

\* if (!jq_compile(jq, filter_cstr))
ValidateCompileStep(c, f, h, E) ==
    LET r == jq_compile(E, f.jq, f.req.filter_str)
    IN Step([f EXCEPT !.pc = IF r.ok THEN "v_teardown" ELSE "v_compile_error"],
            h, r.E, NoOutcome, <<Ev("jq_compile", c, E, f.jq)>>)

ValidateCompileErrorStep(c, f, h, E) == CompileFailure(c, f, h, E, "v_teardown")

ValidateTeardownStep(c, f, h, E) == TeardownStep(c, f, h, E, "v_exit")

\* rb_raise(rb_eJQCompileError, ...) or return Qtrue
ValidateExitStep(c, f, h, E) ==
    IF f.exc_class # "none"
    THEN Step([f EXCEPT !.pc = "done"], h, E, rb_raise(f.exc_class, f.exc_text),
              <<Leave("raise", c, E, f)>>)
    ELSE Step([f EXCEPT !.pc = "done"], h, E, Returned(Qtrue),
              <<Leave("return", c, E, f)>>)

(***************************************************************************)
(* rb_jq_filter and rb_jq_validate_filter: from the arguments of the call  *)
(* to the arguments of rb_jq_filter_impl.                                  *)
(***************************************************************************)
\* filter texts: the identity, two results of which the first is a string,
\* and a text with unbalanced syntax
FilterTexts == {".", "\"Alice\", .", ". @@@ ."}

\* what libjq makes of a filter text (jq_compile, jq_get_error_message and
\* jq_next on the input of the request)
jq_program(text) ==
    CASE text = "." -> IdentityFilter
      [] text = "\"Alice\", ." ->
            [compiles |-> TRUE, diag |-> jv_null, outputs |-> <<JStr, JObj>>,
             last |-> jv_invalid]
      [] OTHER ->
            [compiles |-> FALSE,
             diag |-> jv_string(<<"jq: error: syntax error, unexpected INVALID_CHARACTER">>),
             outputs |-> <<>>, last |-> jv_invalid]

OptionKeys == {"raw_output", "compact_output", "sort_keys", "multiple_outputs"}

\* lines 263-281: the four options read from opts
ParseOptions(opts) ==
    IF NIL_P(opts) THEN [raised |-> FALSE, text |-> <<"">>, o |-> DefaultOptions]
    ELSE LET hash == Check_Type(opts, T_HASH)
         IN IF hash.raised THEN [raised |-> TRUE, text |-> hash.text, o |-> DefaultOptions]
            ELSE LET raw == rb_hash_aref(opts, "raw_output")
                     compact == rb_hash_aref(opts, "compact_output")
                     sort == rb_hash_aref(opts, "sort_keys")
                     multiple == rb_hash_aref(opts, "multiple_outputs")
                 IN [raised |-> FALSE, text |-> <<"">>,
                     o |-> [raw_output |-> IF RTEST(raw) THEN TRUE
                                           ELSE DefaultOptions.raw_output,
                            compact_output |-> IF ~NIL_P(compact) THEN RTEST(compact)
                                               ELSE DefaultOptions.compact_output,
                            sort_keys |-> IF RTEST(sort) THEN TRUE
                                          ELSE DefaultOptions.sort_keys,
                            multiple_outputs |-> IF RTEST(multiple) THEN TRUE
                                                 ELSE DefaultOptions.multiple_outputs]]

NoReq(op) == Req(op, TRUE, NoFilter, "", DefaultOptions)

\* rb_jq_filter up to its call of rb_jq_filter_impl: an exception, or the
\* arguments rb_jq_filter_impl is called with
rb_jq_filter(argv, kw) ==
    LET scan == rb_scan_args(argv, kw)
        json_type == Check_Type(scan.json_str, T_STRING)
        filter_type == Check_Type(scan.filter_str, T_STRING)
        json_cstr == StringValueCStr(scan.json_str.bytes)
        filter_cstr == StringValueCStr(scan.filter_str.bytes)
        options == ParseOptions(scan.opts)
        raised(class, text) ==
            [raised |-> TRUE, out |-> rb_raise(class, text), req |-> NoReq("filter")]
    IN IF scan.raised THEN raised("ArgumentError", <<"wrong number of arguments">>)
       ELSE IF json_type.raised THEN raised("TypeError", json_type.text)
       ELSE IF filter_type.raised THEN raised("TypeError", filter_type.text)
       ELSE IF json_cstr.raised THEN raised("ArgumentError", json_cstr.ptr)
       ELSE IF filter_cstr.raised THEN raised("ArgumentError", filter_cstr.ptr)
       ELSE IF options.raised THEN raised("TypeError", options.text)
       ELSE [raised |-> FALSE, out |-> NoOutcome,
             req |-> Req("filter", TRUE, jq_program(filter_cstr.ptr[1]),
                         json_cstr.ptr[1], options.o)]

\* rb_jq_validate_filter up to jq_init (lines 339-340)
rb_jq_validate_filter(argv) ==
    LET filter == argv[1]
        filter_type == Check_Type(filter, T_STRING)
        filter_cstr == StringValueCStr(filter.bytes)
        raised(class, text) ==
            [raised |-> TRUE, out |-> rb_raise(class, text), req |-> NoReq("validate")]
    IN IF filter_type.raised THEN raised("TypeError", filter_type.text)
       ELSE IF filter_cstr.raised THEN raised("ArgumentError", filter_cstr.ptr)
       ELSE [raised |-> FALSE, out |-> NoOutcome,
             req |-> Req("validate", TRUE, jq_program(filter_cstr.ptr[1]), "",
                         DefaultOptions)]

\* the call either leaves with the exception or goes on to jq_init
EntryWith(c, f, h, E, r, next) ==
    IF r.raised
    THEN Step([f EXCEPT !.pc = "done"], h, E, r.out, <<Leave("raise", c, E, f)>>)
    ELSE Step([f EXCEPT !.pc = next, !.req = r.req], h, E, NoOutcome, <<>>)

\* the engine instance obtained before the arguments are looked at
FilterEntryStep_init_first(c, f, h, E) ==
    LET r == jq_init(E, c, TRUE)
        s == EntryWith(c, [f EXCEPT !.jq = r.jq, !.created = r.jq], h, r.E,
                       rb_jq_filter(f.call.argv, f.call.kw), "compile")
    IN [s EXCEPT !.evs = <<Ev("jq_init", c, r.E, r.jq)>> \o @]

FilterEntryStep(c, f, h, E) ==
    EntryWith(c, f, h, E, rb_jq_filter(f.call.argv, f.call.kw), "init")

ValidateEntryStep(c, f, h, E) ==
    EntryWith(c, f, h, E, rb_jq_validate_filter(f.call.argv), "v_init")

(***************************************************************************)
(* Actions.                                                                *)
(***************************************************************************)
\* instances no call can reach any more
Leaked(E) == {h \in Handles : E[h].live /\ E[h].owner = 0}

\* a caller invokes JQ.filter or JQ.validate_filter!
Invoke(c, r) ==
    /\ frame[c].pc = "idle"
    /\ Cardinality(Leaked(engines)) <= MaxLeaks
    /\ Cardinality(Leaked(engines)) + Cardinality(Active) + 1 <= MaxEngines
    /\ frame' = [frame EXCEPT ![c] =
                    [IdleFrame EXCEPT !.req = r,
                                      !.pc = IF r.op = "filter" THEN "init" ELSE "v_init"]]
    /\ UNCHANGED <<engines, heap, log, outcome>>

\* one call at a time
Enter(c) ==
    /\ Active = {}
    /\ \E r \in Requests : Invoke(c, r)

At(c, pc) == frame[c].pc = pc

FilterInit(c) ==
    At(c, "init") /\ Apply(c, FilterInitStep(c, frame[c], heap[c], engines))

FilterCompile(c) ==
    At(c, "compile") /\ Apply(c, FilterCompileStep(c, frame[c], heap[c], engines))

FilterCompileError(c) ==
    At(c, "compile_error")
        /\ Apply(c, FilterCompileErrorStep(c, frame[c], heap[c], engines))

FilterParse(c) ==
    At(c, "parse") /\ Apply(c, FilterParseStep(c, frame[c], heap[c], engines))

FilterStart(c) ==
    At(c, "start") /\ Apply(c, FilterStartStep(c, frame[c], heap[c], engines))

FilterNextMulti(c) ==
    At(c, "next_multi") /\ Apply(c, FilterNextMultiStep(c, frame[c], heap[c], engines))

FilterNextSingle(c) ==
    At(c, "next_single")
        /\ Apply(c, FilterNextSingleStep(c, frame[c], heap[c], engines))

FilterTeardown(c) ==
    At(c, "teardown") /\ Apply(c, FilterTeardownStep(c, frame[c], heap[c], engines))

FilterExit(c) ==
    At(c, "exit") /\ Apply(c, FilterExitStep(c, frame[c], heap[c], engines))

ValidateInit(c) ==
    At(c, "v_init") /\ Apply(c, ValidateInitStep(c, frame[c], heap[c], engines))

ValidateCompile(c) ==
    At(c, "v_compile") /\ Apply(c, ValidateCompileStep(c, frame[c], heap[c], engines))

ValidateCompileError(c) ==
    At(c, "v_compile_error")
        /\ Apply(c, ValidateCompileErrorStep(c, frame[c], heap[c], engines))

ValidateTeardown(c) ==
    At(c, "v_teardown")
        /\ Apply(c, ValidateTeardownStep(c, frame[c], heap[c], engines))

ValidateExit(c) ==
    At(c, "v_exit") /\ Apply(c, ValidateExitStep(c, frame[c], heap[c], engines))

\* the caller has the outcome; the frame and its values are gone.  An
\* instance the call left allocated stays allocated, out of anyone's reach.
Finish(c) ==
    /\ At(c, "done")
    /\ frame' = [frame EXCEPT ![c] = IdleFrame]
    /\ heap' = [heap EXCEPT ![c] = <<>>]
    /\ log' = [log EXCEPT ![c] = <<>>]
    /\ outcome' = [outcome EXCEPT ![c] = NoOutcome]
    /\ engines' = [h \in Handles |->
                      IF engines[h].live /\ engines[h].owner = c
                      THEN [FreeEngine EXCEPT !.live = TRUE]
                      ELSE engines[h]]

Run(c) ==
    \/ FilterInit(c)
    \/ FilterCompile(c)
    \/ FilterCompileError(c)
    \/ FilterParse(c)
    \/ FilterStart(c)
    \/ FilterNextMulti(c)
    \/ FilterNextSingle(c)
    \/ FilterTeardown(c)
    \/ FilterExit(c)
    \/ ValidateInit(c)
    \/ ValidateCompile(c)
    \/ ValidateCompileError(c)
    \/ ValidateTeardown(c)
    \/ ValidateExit(c)
    \/ Finish(c)

Next == \E c \in Calls : Enter(c) \/ Run(c)

Spec == Init /\ [][Next]_vars

(***************************************************************************)
(* Concurrent calls: any thread may call while others are inside a call,   *)
(* and the steps of the calls interleave in any order.                     *)
(***************************************************************************)
\* the filter yields "Alice" and ends, or yields "Alice" and fails
ConcFilter(last) ==
    [compiles |-> TRUE, diag |-> jv_null, outputs |-> <<JStr>>, last |-> last]

ConcBadFilter ==
    [compiles |-> FALSE, diag |-> MsgBoom, outputs |-> <<>>, last |-> jv_invalid]

AllOutputs == [DefaultOptions EXCEPT !.multiple_outputs = TRUE]

ConcRequests ==
    {Req("filter", TRUE, ConcFilter(jv_invalid), GoodJson, AllOutputs),
     Req("filter", TRUE, ConcFilter(jv_invalid_with_msg(MsgBoom)), GoodJson, AllOutputs),
     Req("filter", TRUE, ConcFilter(jv_invalid_with_msg(MsgBoom)), GoodJson, DefaultOptions),
     Req("filter", TRUE, ConcBadFilter, GoodJson, DefaultOptions),
     Req("validate", TRUE, ConcBadFilter, "", DefaultOptions),
     Req("validate", TRUE, IdentityFilter, "", DefaultOptions)}

EnterConc(c) == \E r \in ConcRequests : Invoke(c, r)

NextConc == \E c \in Calls : EnterConc(c) \/ Run(c)

SpecConc == Init /\ [][NextConc]_vars

(***************************************************************************)
(* Calls with their arguments as the caller passes them: any Ruby value    *)
(* for json and filter, any keywords.                                      *)
(***************************************************************************)
\* the values an option is given: nil, false, true and a truthy non-boolean
OptionValues == {Qnil, Qfalse, Qtrue, Fixnum(0)}

\* keywords of a call: none, or a hash of some of the four options and of
\* a key the extension does not know
Keywords ==
    {Qnil} \cup {RHash(h) : h \in UNION {[K -> OptionValues] :
                                             K \in SUBSET (OptionKeys \cup {"verbose"})}}

GoodArgv(text) == <<RString(<<GoodJson>>), RString(<<text>>)>>

\* a non-String json or filter, a String with a NUL byte inside, one
\* argument too few, and a third positional argument that is no Hash
BadArgvs ==
    {<<Fixnum(1), RString(<<".">>)>>,
     <<RString(<<GoodJson>>), Qnil>>,
     <<Qnil, Fixnum(1)>>,
     <<RString(<<"{", "}">>), RString(<<".">>)>>,
     <<RString(<<GoodJson>>), RString(<<".", "x">>)>>,
     <<RString(<<GoodJson>>)>>,
     <<RString(<<GoodJson>>), RString(<<".">>), Fixnum(1)>>}

FilterCalls ==
    {[method |-> "filter", argv |-> GoodArgv(t), kw |-> k] :
        t \in {".", "\"Alice\", ."}, k \in Keywords}
    \cup {[method |-> "filter", argv |-> a, kw |-> k] :
            a \in BadArgvs \cup {GoodArgv(". @@@ ."),
                                 <<RString(<<"{">>), RString(<<". @@@ .">>)>>,
                                 <<RString(<<"{">>), RString(<<".">>)>>},
            k \in {Qnil, RHash([K \in {"multiple_outputs"} |-> Qtrue])}}

ValidateCalls ==
    {[method |-> "validate", argv |-> <<v>>, kw |-> Qnil] :
        v \in {RString(<<t>>) : t \in FilterTexts}
              \cup {Qnil, Fixnum(1), RString(<<".", "x">>)}}

\* a caller may invoke a method of JQ: one call at a time
Callable(c) ==
    /\ Active = {}
    /\ Cardinality(Leaked(engines)) <= MaxLeaks
    /\ Cardinality(Leaked(engines)) + 1 <= MaxEngines
    /\ frame[c].pc = "idle"

FilterCall(c) ==
    /\ Callable(c)
    /\ \E a \in FilterCalls :
        Apply(c, FilterEntryStep(c, [IdleFrame EXCEPT !.pc = "args", !.call = a,
                                                         !.req = NoReq("filter")],
                                    <<>>, engines))

ValidateCall(c) ==
    /\ Callable(c)
    /\ \E a \in ValidateCalls :
        Apply(c, ValidateEntryStep(c, [IdleFrame EXCEPT !.pc = "args", !.call = a,
                                                           !.req = NoReq("validate")],
                                      <<>>, engines))

NextArgs == \E c \in Calls : FilterCall(c) \/ ValidateCall(c) \/ Run(c)

SpecArgs == Init /\ [][NextArgs]_vars

(***************************************************************************)
(* What the claims speak about.                                            *)
(***************************************************************************)
\* the call has returned or raised
Left(c) == frame[c].pc = "done"

\* the call obtained an engine instance
Obtained(c) == frame[c].created # NULL

\* the instance the call obtained is still allocated
EngineLive(c) ==
    /\ Obtained(c)
    /\ engines[frame[c].created].live
    /\ engines[frame[c].created].owner = c

Events(c, op) == {i \in DOMAIN log[c] : log[c][i].op = op}

\* how many times the call has torn an instance down
Teardowns(c) ==
    Cardinality({i \in Events(c, "jq_teardown") : log[c][i].jq # NULL})

IsFilter(c) == frame[c].req.op = "filter"

IsValidate(c) == frame[c].req.op = "validate"

\* C1: every call that obtained an engine instance has torn it down exactly
\* once when it returns or raises, whatever the exit, so no instance is
\* still live after the call.
C1_TeardownOnEveryExit ==
    \A c \in Calls :
        (Left(c) /\ Obtained(c)) => (Teardowns(c) = 1 /\ ~EngineLive(c))

\* the stage at which the request of a call fails, judged by what libjq
\* answered to the call
CompileFailed(c) == ~frame[c].req.filter_str.compiles

ParseFailed(c) ==
    frame[c].req.filter_str.compiles /\ ~jv_is_valid(jv_parse(frame[c].req.json_str))

\* the call has pulled a value from the result stream, and the last one it
\* pulled is an invalid value that carries a message
PulledError(c) ==
    Events(c, "jq_next") # {} /\ jv_invalid_has_msg(frame[c].result.v)

\* the call has pulled the end of the stream: an invalid value, no message
PulledEnd(c) ==
    /\ Events(c, "jq_next") # {}
    /\ ~jv_is_valid(frame[c].result.v)
    /\ ~jv_invalid_has_msg(frame[c].result.v)

\* the Result Formatter gave up on a result of the call
FormatFailed(c) ==
    \E i \in Events(c, "raise") : log[c][i].at \in {"next_multi", "next_single"}

RaisedClass(c, class) ==
    outcome[c].type = "raise" /\ outcome[c].class = class

\* C2: a filter request that fails raises exactly one error, of the kind of
\* the stage that failed: CompileError for the compile step, ParseError for
\* the parse step, RuntimeError for a result stream ending in an invalid
\* value with a message; no kind is raised for another stage's failure,
\* no stage is run twice and no failure becomes a return value.
C2_ErrorKindByStage ==
    \A c \in Calls :
        (Left(c) /\ IsFilter(c) /\ Obtained(c)) =>
            /\ CompileFailed(c) <=> RaisedClass(c, "JQ::CompileError")
            /\ ParseFailed(c) <=> RaisedClass(c, "JQ::ParseError")
            /\ PulledError(c) => RaisedClass(c, "JQ::RuntimeError")
            /\ RaisedClass(c, "JQ::RuntimeError") => (PulledError(c) \/ FormatFailed(c))
            /\ outcome[c].type = "raise" =>
                  /\ Cardinality(Events(c, "raise")) = 1
                  /\ Events(c, "return") = {}
            /\ \A op \in {"jq_init", "jq_compile", "jv_parse", "jq_start"} :
                  Cardinality(Events(c, op)) <= 1

\* a call has raised ParseError, another kind of call CompileError, ...: the
\* witness takes the parse stage, the one between the other two
C2_Witness ==
    \E c \in Calls :
        /\ Left(c) /\ IsFilter(c) /\ ParseFailed(c)
        /\ RaisedClass(c, "JQ::ParseError")
        /\ Events(c, "jq_compile") # {}

\* C3: every jv a call obtained is consumed exactly once by the time the
\* call returns or raises, and never more than once.
C3_EveryValueConsumedOnce ==
    \A c \in Calls :
        /\ \A i \in DOMAIN heap[c] : heap[c][i].n <= 1
        /\ Left(c) => \A i \in DOMAIN heap[c] : heap[c][i].n = 1

\* the Result Formatter applied to one value under the options of a request
FormatOf(v, opts) ==
    jv_to_json_string(<<[tag |-> "value", n |-> 0]>>, Local(v, 1),
                      opts.raw_output, opts.compact_output, opts.sort_keys)

Multi(c) == IsFilter(c) /\ frame[c].req.opts.multiple_outputs

Single(c) == IsFilter(c) /\ ~frame[c].req.opts.multiple_outputs

\* the valid values the result stream of the request yields, in order
Yields(c) == frame[c].req.filter_str.outputs

\* C4: in multiple-output mode, when the stream has yielded n valid values
\* and then an invalid marker without a message, filter returns the list of
\* the n formatted values in the order the stream yielded them.
C4_MultiReturnsAllInOrder ==
    \A c \in Calls :
        (Left(c) /\ Multi(c) /\ PulledEnd(c)) =>
            /\ Cardinality(Events(c, "jq_next")) = Len(Yields(c)) + 1
            /\ outcome[c] =
                  Returned([t |-> "Array",
                            items |-> [i \in 1..Len(Yields(c)) |->
                                RString(FormatOf(Yields(c)[i], frame[c].req.opts).text)]])

\* two results of different texts came back in stream order
C4_Witness ==
    \E c \in Calls :
        /\ Left(c) /\ Multi(c) /\ PulledEnd(c)
        /\ Yields(c) = <<JObj, JStr>>
        /\ outcome[c].type = "return"
        /\ Len(outcome[c].value.items) = 2

\* C5: in multiple-output mode, when the stream has yielded k valid values
\* and then an invalid marker with a message, filter raises RuntimeError
\* and returns nothing.
C5_MultiErrorDiscardsPartial ==
    \A c \in Calls :
        (Left(c) /\ Multi(c) /\ PulledError(c)) =>
            /\ RaisedClass(c, "JQ::RuntimeError")
            /\ Events(c, "return") = {}

\* results were already collected when the stream ended in an error
C5_Witness ==
    \E c \in Calls :
        /\ Left(c) /\ Multi(c) /\ PulledError(c)
        /\ Len(frame[c].results.items) >= 2
        /\ outcome[c].type = "raise"

\* C6: in single-output mode filter pulls exactly one value per request,
\* whatever the stream holds behind it, and when that value is valid the
\* call hands back exactly what the Result Formatter makes of it under the
\* options of the request.
C6_SinglePullsOneAndFormatsIt ==
    \A c \in Calls :
        Single(c) =>
            /\ Cardinality(Events(c, "jq_next")) <= 1
            /\ (Left(c) /\ Events(c, "jq_start") # {}) =>
                  /\ Cardinality(Events(c, "jq_next")) = 1
                  /\ Yields(c) # <<>> =>
                        LET out == FormatOf(Yields(c)[1], frame[c].req.opts)
                        IN outcome[c] =
                              IF out.raised
                              THEN rb_raise("JQ::RuntimeError", out.text)
                              ELSE Returned(RString(out.text))

\* a stream with more behind its first value, and the first value came back
C6_Witness ==
    \E c \in Calls :
        /\ Left(c) /\ Single(c)
        /\ Yields(c) = <<JObj, JStr>>
        /\ jv_invalid_has_msg(frame[c].req.filter_str.last)
        /\ frame[c].req.opts.sort_keys /\ ~frame[c].req.opts.compact_output
        /\ outcome[c] = Returned(RString(<<"{\n  \"a\": 2,\n  \"z\": 1\n}">>))

\* C7: in single-output mode, when the first value pulled is an invalid
\* marker without a message, filter returns the text "null" and raises
\* nothing, under every combination of raw_output, compact_output, sort_keys.
C7_SingleEmptyIsNull ==
    \A c \in Calls :
        (Left(c) /\ Single(c) /\ PulledEnd(c)) =>
            outcome[c] = Returned(RString(<<"null">>))

\* the empty stream under the options furthest from the defaults
C7_Witness ==
    \E c \in Calls :
        /\ Left(c) /\ Single(c) /\ PulledEnd(c)
        /\ Yields(c) = <<>>
        /\ frame[c].req.opts.raw_output
        /\ ~frame[c].req.opts.compact_output
        /\ frame[c].req.opts.sort_keys
        /\ outcome[c].type = "return"

\* one of the three faults is injected into the request of the call: the
\* filter does not compile, the input does not parse, or the result stream
\* ends in an error after its valid results
Faulted(c) ==
    \/ CompileFailed(c)
    \/ ParseFailed(c)
    \/ jv_invalid_has_msg(frame[c].req.filter_str.last)

\* the call raised from the compile step, the parse step or the stream
RaisedFromStage(c) ==
    /\ outcome[c].type = "raise"
    /\ outcome[c].class \in {"JQ::CompileError", "JQ::ParseError", "JQ::RuntimeError"}
    /\ ~FormatFailed(c)

\* C8: under a compile failure, a parse failure or a stream that ends in an
\* error behind any number of valid results, in either output mode, the
\* engine teardown runs exactly once in the request and before the error
\* is raised: no CompileError, ParseError or stream RuntimeError is raised
\* while the engine instance is live.
C8_TeardownOnceBeforeRaise ==
    \A c \in Calls :
        (Obtained(c) /\ Faulted(c) /\ ~FormatFailed(c)) =>
            /\ Teardowns(c) <= 1
            /\ Left(c) => (Teardowns(c) = 1 /\ ~EngineLive(c))
            /\ RaisedFromStage(c) =>
                  /\ ~EngineLive(c)
                  /\ \A i \in Events(c, "raise") :
                        /\ ~log[c][i].live
                        /\ \E j \in Events(c, "jq_teardown") :
                              j < i /\ log[c][j].jq # NULL /\ log[c][j].live

\* the stream failed behind two collected results and the error was raised
\* with the instance torn down
C8_Witness ==
    \E c \in Calls :
        /\ Left(c) /\ Multi(c) /\ PulledError(c)
        /\ Len(frame[c].results.items) = 2
        /\ RaisedFromStage(c)
        /\ Teardowns(c) = 1

\* C9: validate_filter creates an engine, compiles and tears down, and does
\* nothing else with the engine or the JSON layer: no input is parsed, no
\* evaluation started, no result pulled; with an engine obtained it returns
\* true when the filter compiles and raises CompileError when it does not.
C9_ValidateOnlyCompiles ==
    \A c \in Calls :
        IsValidate(c) =>
            /\ \A i \in DOMAIN log[c] :
                  log[c][i].op \in {"jq_init", "jq_compile", "jq_get_error_message",
                                    "jq_teardown", "raise", "return"}
            /\ \A i \in DOMAIN heap[c] : heap[c][i].tag = "error"
            /\ (Left(c) /\ Obtained(c)) =>
                  IF frame[c].req.filter_str.compiles
                  THEN outcome[c] = Returned(Qtrue)
                  ELSE RaisedClass(c, "JQ::CompileError")

\* a filter that compiles was validated
C9_Witness ==
    \E c \in Calls :
        /\ Left(c) /\ IsValidate(c) /\ Obtained(c)
        /\ frame[c].req.filter_str.compiles
        /\ outcome[c] = Returned(Qtrue)
        /\ Teardowns(c) = 1

(***************************************************************************)
(* The outcome of a request run alone, as a function of the request.       *)
(***************************************************************************)
\* the message a raise takes from a jv: its bytes up to the first NUL when
\* it is a string, the fallback text otherwise
MessageOf(v, fallback) ==
    IF jv_is_valid(v) /\ jv_get_kind(v) = "string" THEN <<v.str[1]>> ELSE fallback

\* the first result the Result Formatter cannot serialize, 0 when none
RECURSIVE FirstUnformattable(_, _, _)
FirstUnformattable(outs, opts, i) ==
    IF i > Len(outs) THEN 0
    ELSE IF FormatOf(outs[i], opts).raised THEN i
    ELSE FirstUnformattable(outs, opts, i + 1)

AloneEvaluate(r) ==
    LET outs == r.filter_str.outputs
        last == r.filter_str.last
        failure == [type |-> "raise", class |-> "JQ::RuntimeError",
                    msg |-> <<"Failed to convert result to JSON">>]
        error == [type |-> "raise", class |-> "JQ::RuntimeError",
                  msg |-> MessageOf(last.msg, <<"Unknown jq error">>)]
    IN IF r.opts.multiple_outputs
       THEN IF FirstUnformattable(outs, r.opts, 1) # 0 THEN failure
            ELSE IF last.msg.kind # "null" THEN error
            ELSE Returned([t |-> "Array",
                           items |-> [i \in 1..Len(outs) |->
                                         RString(FormatOf(outs[i], r.opts).text)]])
       ELSE IF outs # <<>>
            THEN IF FormatOf(outs[1], r.opts).raised THEN failure
                 ELSE Returned(RString(FormatOf(outs[1], r.opts).text))
            ELSE IF last.msg.kind # "null" THEN error
            ELSE Returned(RString(<<"null">>))

Alone(r) ==
    LET parsed == jv_parse(r.json_str)
    IN IF ~r.init_ok
       THEN [type |-> "raise", class |-> "JQ::Error", msg |-> <<"Failed to initialize jq">>]
       ELSE IF ~r.filter_str.compiles
       THEN [type |-> "raise", class |-> "JQ::CompileError",
             msg |-> MessageOf(r.filter_str.diag, <<"Syntax error in jq filter">>)]
       ELSE IF r.op = "validate" THEN Returned(Qtrue)
       ELSE IF parsed.kind = "invalid"
       THEN [type |-> "raise", class |-> "JQ::ParseError",
             msg |-> IF parsed.msg.kind = "null" THEN <<"Invalid JSON input">>
                     ELSE MessageOf(parsed.msg, <<"Unknown jq error">>)]
       ELSE AloneEvaluate(r)

\* run one call at a time, every call ends with the outcome Alone gives
AloneIsTheSequentialOutcome ==
    \A c \in Calls : Left(c) => outcome[c] = Alone(frame[c].req)

EngineOps ==
    {"jq_init", "jq_compile", "jq_get_error_message", "jq_start", "jq_next",
     "jq_teardown"}

\* C10: however the steps of concurrent calls interleave, every engine
\* operation of a call is applied to the live instance that call created,
\* no two calls hold the same instance at the same time, and each call ends
\* with the outcome (value, or error kind and message) it has when run alone.
C10_ConcurrentCallsAreIsolated ==
    \A c \in Calls :
        /\ \A i \in DOMAIN log[c] :
              log[c][i].op \in EngineOps =>
                  /\ log[c][i].own /\ log[c][i].live
                  /\ log[c][i].jq = frame[c].created
        /\ \A d \in Calls \ {c} :
              (frame[c].jq # NULL /\ frame[d].jq # NULL) => frame[c].jq # frame[d].jq
        /\ Left(c) => outcome[c] = Alone(frame[c].req)

\* two calls inside rb_jq_filter_impl at once, both in the middle of their
\* result streams, and one of them has already ended
C10_Witness ==
    \E c, d \in Calls :
        /\ c # d
        /\ Left(c) /\ Multi(c) /\ outcome[c].type = "return"
        /\ Len(outcome[c].value.items) = 1
        /\ frame[d].pc = "next_multi" /\ Events(d, "jq_next") # {}
        /\ \E i \in Events(c, "jq_next") : Len(log[d]) >= 4

(***************************************************************************)
(* The order of the stages of a session.                                   *)
(***************************************************************************)
\* the place of an engine or parser call in the session: create, compile,
\* parse input, start evaluation, pull results
StageRank(op) ==
    CASE op = "jq_init" -> 1
      [] op = "jq_compile" -> 2
      [] op = "jv_parse" -> 3
      [] op = "jq_start" -> 4
      [] op = "jq_next" -> 5
      [] OTHER -> 0

Staged(c) == {i \in DOMAIN log[c] : StageRank(log[c][i].op) # 0}

\* C11: the stages of a filter request run in the order create, compile,
\* parse input, start evaluation, pull results, each stage but the pulls at
\* most once; when the filter does not compile the call never parses the
\* input, starts an evaluation or pulls a result, and it raises CompileError
\* (never ParseError), also when the input is malformed as well.
C11_StagesInOrderCompileFirst ==
    \A c \in Calls :
        IsFilter(c) =>
            /\ \A i, j \in Staged(c) :
                  i < j =>
                      /\ StageRank(log[c][i].op) <= StageRank(log[c][j].op)
                      /\ StageRank(log[c][i].op) = StageRank(log[c][j].op)
                            => log[c][i].op = "jq_next"
            /\ \A i \in Staged(c) :
                  StageRank(log[c][i].op) > 1 =>
                      \E j \in Staged(c) :
                          j < i /\ StageRank(log[c][j].op) = StageRank(log[c][i].op) - 1
            /\ CompileFailed(c) =>
                  /\ \A op \in {"jv_parse", "jq_start", "jq_next"} : Events(c, op) = {}
                  /\ (Left(c) /\ Obtained(c)) =>
                        /\ RaisedClass(c, "JQ::CompileError")
                        /\ ~RaisedClass(c, "JQ::ParseError")

\* the filter does not compile and the input is malformed too: the call
\* has raised CompileError
C11_Witness ==
    \E c \in Calls :
        /\ Left(c) /\ IsFilter(c) /\ CompileFailed(c)
        /\ frame[c].req.json_str = "{"
        /\ Events(c, "jq_compile") # {}
        /\ RaisedClass(c, "JQ::CompileError")

(***************************************************************************)
(* The arguments of a call and what rb_jq_filter_impl is called with.      *)
(***************************************************************************)
\* rb_jq_filter has called rb_jq_filter_impl
ImplCalled(c) == IsFilter(c) /\ frame[c].req # NoReq("filter")

\* the call was given the option of that name
Given(c, name) ==
    ~NIL_P(frame[c].call.kw) /\ name \in DOMAIN frame[c].call.kw.h

\* the keywords of the call without the keys the extension does not know
KnownKeywords(kw) ==
    IF NIL_P(kw) THEN kw
    ELSE RHash([k \in DOMAIN kw.h \cap OptionKeys |-> kw.h[k]])

\* C12: of the four options raw_output, compact_output, sort_keys and
\* multiple_outputs, one the call does not give takes its default (false,
\* true, false, false) and one the call gives takes the truthiness of the
\* value given (nil and false are falsy, every other value truthy),
\* compact_output included; keys other than the four change nothing in
\* what rb_jq_filter_impl is called with.
C12_OptionsByTruthiness ==
    \A c \in Calls :
        ImplCalled(c) =>
            /\ \A name \in OptionKeys :
                  frame[c].req.opts[name] =
                      IF Given(c, name) THEN RTEST(frame[c].call.kw.h[name])
                      ELSE DefaultOptions[name]
            /\ frame[c].req =
                  rb_jq_filter(frame[c].call.argv, KnownKeywords(frame[c].call.kw)).req

(***************************************************************************)
(* The texts the Result Formatter is to produce.                           *)
(***************************************************************************)
\* the content of a string as it is, the JSON serialization of any other
\* value: pretty iff not compact, keys sorted iff sortKeys
FormattedText(v, raw, compact, sortKeys) ==
    IF raw /\ v.kind = "string" THEN v.str
    ELSE <<DumpText(v, ~compact, sortKeys)>>

ExpectedText(v, opts) ==
    FormattedText(v, opts.raw_output, opts.compact_output, opts.sort_keys)

\* the texts a filter call has handed back, one per result
ReturnedTexts(c) ==
    IF Multi(c) THEN [i \in DOMAIN outcome[c].value.items |->
                         outcome[c].value.items[i].bytes]
    ELSE <<outcome[c].value.bytes>>

\* C13: every text a filter call returns for a result is, when raw_output
\* is set and the result is a JSON string, the content of the string without
\* quotes whatever compact_output and sort_keys are, and in every other case
\* the JSON serialization of the result, pretty iff compact_output is false,
\* keys sorted iff sort_keys is true, whatever raw_output is; in
\* multiple-output mode this holds of each result by itself.
C13_FormatterRawElseJson ==
    \A c \in Calls :
        (Left(c) /\ IsFilter(c) /\ outcome[c].type = "return"
                 /\ Events(c, "jq_next") # {} /\ Yields(c) # <<>>) =>
            LET opts == frame[c].req.opts
                texts == ReturnedTexts(c)
            IN /\ Len(texts) = IF Multi(c) THEN Len(Yields(c)) ELSE 1
               /\ \A i \in DOMAIN texts :
                     LET v == Yields(c)[i]
                     IN /\ texts[i] = ExpectedText(v, opts)
                        /\ (opts.raw_output /\ v.kind = "string") =>
                              \A compact, sortKeys \in BOOLEAN :
                                  texts[i] = FormattedText(v, TRUE, compact, sortKeys)
                                      /\ texts[i] = v.str
                        /\ v.kind # "string" =>
                              texts[i] = FormattedText(v, ~opts.raw_output,
                                                       opts.compact_output, opts.sort_keys)
                        /\ ~opts.raw_output =>
                              texts[i] = <<DumpText(v, ~opts.compact_output, opts.sort_keys)>>

\* a string and an object returned together under raw_output, pretty and
\* sorted: the string bare, the object serialized on several lines
C13_Witness ==
    \E c \in Calls :
        /\ Left(c) /\ Multi(c)
        /\ Yields(c) = <<JStr, JObj>>
        /\ frame[c].req.opts.raw_output
        /\ ~frame[c].req.opts.compact_output
        /\ frame[c].req.opts.sort_keys
        /\ outcome[c] =
              Returned([t |-> "Array",
                        items |-> <<RString(<<"Alice">>),
                                    RString(<<"{\n  \"a\": 2,\n  \"z\": 1\n}">>)>>])

(***************************************************************************)
(* The Error Classifier at work.                                           *)
(***************************************************************************)
\* the call has gone through raise_jq_error(error_msg, exc_class)
Classified(c) == Left(c) /\ frame[c].error_msg # NoLocal

\* the call has failed in its compile step and raised from there
CompileRaised(c) ==
    Left(c) /\ Obtained(c) /\ CompileFailed(c) /\ Events(c, "jq_get_error_message") # {}

\* the value the failure of the call is reported from
ErrorValue(c) ==
    IF Classified(c) THEN frame[c].error_msg.v ELSE frame[c].req.filter_str.diag

IsMessage(v) == jv_is_valid(v) /\ jv_get_kind(v) = "string"

\* C14 as stated: the Error Classifier raises the kind it is given and
\* never returns; the message raised is the text of the value when the value
\* is a string, and the fixed text "Unknown error" when the value is
\* invalid, carries no message or is not a string; compile-stage failures
\* are reported the same way as parse-stage and evaluation-stage ones.
C14_FallbackIsUnknownError ==
    \A c \in Calls :
        (Classified(c) \/ CompileRaised(c)) =>
            /\ outcome[c].type = "raise"
            /\ outcome[c].class =
                  IF Classified(c) THEN frame[c].exc_class ELSE "JQ::CompileError"
            /\ outcome[c].msg =
                  IF IsMessage(ErrorValue(c)) THEN jv_string_value(ErrorValue(c))
                  ELSE <<"Unknown error">>

\* C14 as amended: the Error Classifier raises the kind it is given and
\* never returns; the message raised is the text of the value up to its
\* first NUL byte when the value is a string, and the fixed text "Unknown
\* jq error" otherwise.  It reports parse-stage and evaluation-stage
\* failures whose marker carries a message.  A compile-stage failure is
\* reported by code of its own: CompileError with the text of the engine's
\* diagnostic up to its first NUL byte when that is a string, and with the
\* text "Syntax error in jq filter" otherwise.
C14_ClassifierRaisesKindWithMessage ==
    \A c \in Calls :
        /\ Classified(c) =>
              /\ outcome[c].type = "raise"
              /\ Events(c, "return") = {}
              /\ outcome[c].class = frame[c].exc_class
              /\ frame[c].exc_class =
                    IF ParseFailed(c) THEN "JQ::ParseError" ELSE "JQ::RuntimeError"
              /\ outcome[c].msg =
                    IF IsMessage(ErrorValue(c))
                    THEN cstr(jv_string_value(ErrorValue(c)))
                    ELSE <<"Unknown jq error">>
        /\ CompileRaised(c) =>
              /\ ~Classified(c)
              /\ outcome[c].type = "raise"
              /\ Events(c, "return") = {}
              /\ outcome[c].class = "JQ::CompileError"
              /\ outcome[c].msg =
                    IF IsMessage(ErrorValue(c))
                    THEN cstr(jv_string_value(ErrorValue(c)))
                    ELSE <<"Syntax error in jq filter">>

\* the classifier was handed a message that is not a string, for a failure
\* of the evaluation, and raised the fallback text
C14_Witness ==
    \E c \in Calls :
        /\ Classified(c)
        /\ ~IsMessage(frame[c].error_msg.v)
        /\ frame[c].exc_class = "JQ::RuntimeError"
        /\ outcome[c] = [type |-> "raise", class |-> "JQ::RuntimeError",
                          msg |-> <<"Unknown jq error">>]

(***************************************************************************)
(* What a call of validate_filter leaves behind.                           *)
(***************************************************************************)
\* the call of validate_filter has ended with an engine instance obtained
Validated(c) == Left(c) /\ IsValidate(c) /\ Obtained(c)

\* the step is one of a call of validate_filter, from its invocation to the
\* moment the caller has the outcome
ValidateStepOf(c) ==
    /\ frame'[c] # frame[c]
    /\ frame[c].req.op = "validate" \/ frame'[c].req.op = "validate"

\* C15: a call of validate_filter leaves nothing behind and depends on
\* nothing left behind: no step of it touches an engine instance other than
\* the one it creates, that instance is back in the free state and every
\* value of the call is consumed when it ends, so the engine instances and
\* values live after the call are those live before it; it returns true for
\* every filter that compiles, however many calls of validate_filter and
\* filter came before it, and every call ends with the outcome its request
\* has when run first.
C15_ValidateLeavesNoState ==
    /\ [](\A c \in Calls :
              /\ Validated(c) =>
                    /\ engines[frame[c].created] = FreeEngine
                    /\ \A i \in DOMAIN heap[c] : heap[c][i].n = 1
                    /\ frame[c].req.filter_str.compiles => outcome[c] = Returned(Qtrue)
              /\ Left(c) => outcome[c] = Alone(frame[c].req))
    /\ [][\A c \in Calls :
              ValidateStepOf(c) =>
                  \A h \in Handles \ {frame[c].created, frame'[c].created} :
                      engines'[h] = engines[h]]_vars

\* validate_filter has returned true in a process in which an earlier
\* call of filter left an engine instance allocated
C15_Witness ==
    \E c \in Calls :
        /\ Validated(c)
        /\ frame[c].req.filter_str.compiles
        /\ outcome[c] = Returned(Qtrue)
        /\ Leaked(engines) # {}
        /\ engines[frame[c].created] = FreeEngine

(***************************************************************************)
(* Pulls from the result stream.                                           *)
(***************************************************************************)
\* how many times the call has pulled from its result stream
Pulls(c) == Cardinality(Events(c, "jq_next"))

\* the last pull of the call returned an invalid value: the end of the
\* stream or an error
PulledInvalid(c) == Events(c, "jq_next") # {} /\ ~jv_is_valid(frame[c].result.v)

\* C16: once a pull from the result stream has returned an invalid value,
\* with or without a message, the call never pulls again, in either output
\* mode: a call makes at most one pull more than the stream has valid
\* values before its first invalid one, and it hands back no more texts
\* than the stream has such values.
C16_NoPullAfterInvalid ==
    /\ [](\A c \in Calls :
              IsFilter(c) =>
                  /\ Pulls(c) <= Len(Yields(c)) + 1
                  /\ PulledInvalid(c) => Pulls(c) = Len(Yields(c)) + 1
                  /\ (Left(c) /\ outcome[c].type = "return" /\ Events(c, "jq_next") # {}) =>
                        Len(ReturnedTexts(c)) <= IF Yields(c) = <<>> THEN 1
                                                 ELSE Len(Yields(c)))
    /\ [][\A c \in Calls :
              PulledInvalid(c) =>
                  Cardinality({i \in DOMAIN log'[c] : log'[c][i].op = "jq_next"})
                      <= Pulls(c)]_vars

\* the stream gave two results and then an error; the call has ended after
\* three pulls
C16_Witness ==
    \E c \in Calls :
        /\ Left(c) /\ Multi(c) /\ PulledError(c)
        /\ Len(Yields(c)) = 2
        /\ Pulls(c) = 3

(***************************************************************************)
(* Calls with arguments of the wrong type.                                 *)
(***************************************************************************)
\* a call of the method is in progress or has just ended
InCall(c, method) == frame[c].pc # "idle" /\ frame[c].call.method = method

\* json or filter is not a String
BadText(c) ==
    /\ Len(frame[c].call.argv) >= 2
    /\ frame[c].call.argv[1].t # T_STRING \/ frame[c].call.argv[2].t # T_STRING

\* the argument after json and filter is not a Hash
BadOptions(c) ==
    Len(frame[c].call.argv) = 3 /\ frame[c].call.argv[3].t # T_HASH

\* the call has ended in an exception of that class with no engine instance
\* allocated and nothing compiled, parsed or evaluated
RaisedBeforeSession(c, class) ==
    /\ Left(c) /\ RaisedClass(c, class)
    /\ ~Obtained(c) /\ frame[c].jq = NULL
    /\ \A h \in Handles : engines[h].owner # c
    /\ \A i \in DOMAIN log[c] : log[c][i].op = "raise"
    /\ heap[c] = <<>>

\* C17 as stated: when json or filter is not a text value, or the options
\* argument is not a hash, filter raises a type error without allocating an
\* engine instance, compiling, parsing or evaluating anything; and
\* validate_filter raises a type error for a filter that is not a text
\* value before it allocates an engine instance.
C17_TypeErrorBeforeSession ==
    \A c \in Calls :
        /\ (InCall(c, "filter") /\ (BadText(c) \/ BadOptions(c))) =>
              RaisedBeforeSession(c, "TypeError")
        /\ (InCall(c, "validate") /\ frame[c].call.argv[1].t # T_STRING) =>
              RaisedBeforeSession(c, "TypeError")

\* C17 as amended: when json or filter is not a text value filter raises a
\* type error, and when it is given a third positional argument that is not
\* a hash it raises an argument error, in both cases without allocating an
\* engine instance, compiling, parsing or evaluating anything; and
\* validate_filter raises a type error for a filter that is not a text
\* value before it allocates an engine instance.
C17_ArgumentsCheckedBeforeSession ==
    \A c \in Calls :
        /\ (InCall(c, "filter") /\ BadText(c) /\ ~BadOptions(c)) =>
              RaisedBeforeSession(c, "TypeError")
        /\ (InCall(c, "filter") /\ BadOptions(c)) =>
              RaisedBeforeSession(c, "ArgumentError")
        /\ (InCall(c, "validate") /\ frame[c].call.argv[1].t # T_STRING) =>
              RaisedBeforeSession(c, "TypeError")
        /\ (frame[c].pc # "idle" /\ \E i \in DOMAIN log[c] : log[c][i].at = "args") =>
              \E class \in {"TypeError", "ArgumentError"} : RaisedBeforeSession(c, class)

\* filter was called with a json that is no String and a filter that is
\* one, and has raised TypeError with no engine instance allocated
C17_Witness ==
    \E c \in Calls :
        /\ InCall(c, "filter") /\ BadText(c)
        /\ frame[c].call.argv[1] = Fixnum(1)
        /\ frame[c].call.argv[2].t = T_STRING
        /\ RaisedBeforeSession(c, "TypeError")
        /\ outcome[c].msg = <<"wrong argument type Integer (expected String)">>

(***************************************************************************)
(* The empty stream and the stream of a JSON null, in single-output mode.  *)
(***************************************************************************)
\* the stream of the request is empty: its first value is the end marker
EmptyStream(c) ==
    Yields(c) = <<>> /\ ~jv_invalid_has_msg(frame[c].req.filter_str.last)

\* the first value of the stream of the request is the JSON null
NullFirst(c) == Yields(c) # <<>> /\ Yields(c)[1] = jv_null

\* C18: in single-output mode a request over an empty result stream and a
\* request over a stream whose first value is JSON null end alike under
\* every combination of raw_output, compact_output and sort_keys: each
\* returns the text "null" and neither raises, so the outcome does not tell
\* the caller which of the two streams it had.
C18_EmptyAndNullAlike ==
    \A c \in Calls :
        (Left(c) /\ Single(c) /\ Events(c, "jq_next") # {}
                 /\ (EmptyStream(c) \/ NullFirst(c))) =>
            /\ outcome[c] = Returned(RString(<<"null">>))
            /\ Events(c, "raise") = {}
            /\ \A outs \in {<<>>, <<jv_null>>} :
                  Alone([frame[c].req EXCEPT !.filter_str.outputs = outs,
                                             !.filter_str.last = jv_invalid])
                      = outcome[c]

\* a stream that starts with JSON null, under the options furthest from the
\* defaults: "null" came back, as it does for the empty stream
C18_Witness ==
    \E c \in Calls :
        /\ Left(c) /\ Single(c) /\ NullFirst(c)
        /\ frame[c].req.opts.raw_output
        /\ ~frame[c].req.opts.compact_output
        /\ frame[c].req.opts.sort_keys
        /\ outcome[c] = Returned(RString(<<"null">>))
        /\ Alone([frame[c].req EXCEPT !.filter_str.outputs = <<>>,
                                      !.filter_str.last = jv_invalid]) = outcome[c]

(***************************************************************************)
(* The engine instance after its teardown.                                 *)
(***************************************************************************)
\* the calls that use an engine instance they were given
EngineUses == {"jq_compile", "jq_get_error_message", "jq_start", "jq_next"}

\* the call has torn its instance down and not yet handed back its outcome
TornDown(c) == frame[c].pc \in {"exit", "v_exit"}

\* what the call is about to raise or return is in its local variables
OutcomeAtHand(f) ==
    IF f.error_msg # NoLocal
    THEN rb_raise(f.exc_class,
                  IF IsMessage(f.error_msg.v) THEN jv_string_value(f.error_msg.v)
                  ELSE <<"Unknown jq error">>)
    ELSE IF f.exc_class # "none" THEN rb_raise(f.exc_class, f.exc_text)
    ELSE Returned(IF f.req.op = "validate" THEN Qtrue ELSE f.results)

\* C19: no engine operation is applied to an instance after its teardown:
\* every compile, read-last-error, start-evaluation and next-result call of
\* a filter or validate_filter call is on the live instance of that call
\* and precedes the teardown, after the teardown the call only raises or
\* returns, and what it raises or returns then was in its local variables
\* before the teardown.
C19_NoEngineUseAfterTeardown ==
    /\ [](\A c \in Calls :
              /\ \A i \in DOMAIN log[c] :
                    /\ log[c][i].op \in EngineUses \cup {"jq_teardown"} =>
                          /\ log[c][i].jq # NULL /\ log[c][i].live /\ log[c][i].own
                          /\ \A j \in Events(c, "jq_teardown") : j >= i
                    /\ log[c][i].op = "jq_teardown" =>
                          \A j \in DOMAIN log[c] :
                              j > i => log[c][j].op \in {"raise", "return"}
              /\ TornDown(c) => frame[c].jq = NULL /\ ~EngineLive(c)
              /\ (Left(c) /\ Teardowns(c) > 0) => outcome[c] = OutcomeAtHand(frame[c]))
    /\ [][\A c \in Calls :
              (frame[c].pc \in {"teardown", "v_teardown", "exit", "v_exit"}
                    /\ frame'[c] # frame[c] /\ frame'[c].pc # "idle") =>
                  /\ OutcomeAtHand(frame'[c]) = OutcomeAtHand(frame[c])
                  /\ heap'[c] # heap[c] => TornDown(c)
                  /\ TornDown(c) => engines' = engines]_vars

\* a compile failure: the diagnostic was read from the live instance, the
\* instance torn down after that, and the CompileError raised last with
\* the diagnostic's text
C19_Witness ==
    \E c \in Calls :
        /\ Left(c) /\ IsFilter(c) /\ CompileFailed(c)
        /\ outcome[c] = rb_raise("JQ::CompileError", <<"boom">>)
        /\ \E i \in Events(c, "jq_get_error_message") :
              \E j \in Events(c, "jq_teardown") :
                  \E k \in Events(c, "raise") : i < j /\ j < k /\ log[c][i].live

(***************************************************************************)
(* The two output modes on the same input, filter and formatting options.  *)
(***************************************************************************)
\* the request of the call in the other output mode
OtherMode(c) == [frame[c].req EXCEPT !.opts.multiple_outputs = ~@]

\* the outcomes of the request of the call in multiple-output mode and in
\* single-output mode: one is the outcome of the call, the other the
\* outcome of the request in the other mode
InMulti(c) == IF Multi(c) THEN outcome[c] ELSE Alone(OtherMode(c))

InSingle(c) == IF Single(c) THEN outcome[c] ELSE Alone(OtherMode(c))

\* the call has ended after an evaluation
Evaluated(c) == Left(c) /\ IsFilter(c) /\ Events(c, "jq_next") # {}

\* the stream of the request has at least one valid value and then an error
ValuesThenError(c) ==
    Yields(c) # <<>> /\ jv_invalid_has_msg(frame[c].req.filter_str.last)

\* what both statements of C20 have in common: the list against its first
\* element, the empty list against "null"
ModesAgreeOnLists(c) ==
    /\ outcome[c] = Alone(frame[c].req)
    /\ (InMulti(c).type = "return" /\ InMulti(c).value.items # <<>>) =>
          InSingle(c) = Returned(InMulti(c).value.items[1])
    /\ (InMulti(c).type = "return" /\ InMulti(c).value.items = <<>>) =>
          InSingle(c) = Returned(RString(<<"null">>))

\* C20 as stated: for the same input, filter and formatting options, when
\* multiple-output mode returns a list that is not empty single-output mode
\* returns the first element of the list; when multiple-output mode returns
\* the empty list single-output mode returns "null"; and when the stream
\* has at least one valid value and then an error, single-output mode
\* returns the text of the first value and does not raise while
\* multiple-output mode raises RuntimeError.
C20_SingleIsFirstOfMulti ==
    \A c \in Calls :
        Evaluated(c) =>
            /\ ModesAgreeOnLists(c)
            /\ ValuesThenError(c) =>
                  /\ InSingle(c) =
                        Returned(RString(ExpectedText(Yields(c)[1], frame[c].req.opts)))
                  /\ InMulti(c).type = "raise" /\ InMulti(c).class = "JQ::RuntimeError"

\* C20 as amended: the first two parts as stated; and when the stream has
\* at least one valid value and then an error, multiple-output mode raises
\* RuntimeError, while single-output mode returns the text of the first
\* value and does not raise if the first value can be serialized, and
\* raises RuntimeError ("Failed to convert result to JSON") if it cannot.
C20_SingleIsFirstOfMultiIfSerializable ==
    \A c \in Calls :
        Evaluated(c) =>
            /\ ModesAgreeOnLists(c)
            /\ ValuesThenError(c) =>
                  /\ InSingle(c) =
                        IF FormatOf(Yields(c)[1], frame[c].req.opts).raised
                        THEN rb_raise("JQ::RuntimeError",
                                      <<"Failed to convert result to JSON">>)
                        ELSE Returned(RString(ExpectedText(Yields(c)[1],
                                                           frame[c].req.opts)))
                  /\ InMulti(c).type = "raise" /\ InMulti(c).class = "JQ::RuntimeError"

\* a call in multiple-output mode over an object, a string and then an
\* error has raised RuntimeError with the message of the error; the same
\* request in single-output mode returns the object's text
C20_Witness ==
    \E c \in Calls :
        /\ Evaluated(c) /\ Multi(c) /\ ValuesThenError(c)
        /\ Yields(c) = <<JObj, JStr>>
        /\ frame[c].req.opts.compact_output /\ frame[c].req.opts.sort_keys
        /\ outcome[c] = rb_raise("JQ::RuntimeError", <<"boom">>)
        /\ InSingle(c) = Returned(RString(<<"{\"a\":2,\"z\":1}">>))
====
